---- MODULE Spec2Model ----
(***************************************************************************)
(* CareChain ledger core (src/src/domain/blockchain_layer.py):             *)
(* Transaction, Block, ConsensusEngine, SmartContract registry and         *)
(* BlockchainCore (genesis, submit_transaction, mine_block, queries).      *)
(***************************************************************************)
EXTENDS Integers, Sequences, FiniteSets, TLC

(***************************************************************************)
(* Bounds of the model.                                                    *)
(***************************************************************************)
MaxSubmits == 3        \* most transactions submitted in one run
MaxChain == 3          \* longest chain explored (genesis included)
MaxValidators == 10    \* longest validator list a ConsensusEngine is built on
MaxBatch == 2          \* longest batch handed to reach_consensus on its own
MaxClockSteps == 2     \* most advances of the clock in one run
MaxRules == 2          \* most access keys held by one contract
MaxContracts == 2      \* most contracts registered in one run
MaxLeaves == 4         \* longest transaction list a Merkle root is computed on

(***************************************************************************)
(* Program constants.                                                      *)
(***************************************************************************)
HexDigestLen == 64     \* "0" * 64, the genesis previous_hash
SigLen == 32           \* expected_sig[:32]
GasFeeMilli == 1       \* gas_fee: float = 0.001, in thousandths
SecondsPerHour == 3600 \* duration_hours * 3600

VARIABLES
    chain,                  \* BlockchainCore.chain
    pending_transactions,   \* BlockchainCore.pending_transactions
    transaction_pool,       \* BlockchainCore.transaction_pool (id -> Transaction)
    smart_contracts,        \* BlockchainCore.smart_contracts (id -> SmartContract)
    validators,             \* BlockchainCore.validators, fixed at construction
    now,                    \* time.time(), in whole seconds
    result,                 \* what the last completed call returned
    submitted,              \* per transaction, how often submit_transaction accepted it
    miner                   \* locals of each mine_block call in flight

vars == <<chain, pending_transactions, transaction_pool, smart_contracts,
          validators, now, result, submitted, miner>>

(***************************************************************************)
(* Hashing. hashlib.sha256 is modelled as a collision-free constructor     *)
(* over its tagged preimage; a digest is never equal to its preimage and   *)
(* two digests are equal only when their preimages are.                    *)
(***************************************************************************)
Sha256(preimage) == <<"sha256", preimage>>

\* hexdigest()[:32]
Prefix32(digest) == <<"hex32", SigLen, digest>>

\* "0" * 64
ZeroHash == [i \in 1..HexDigestLen |-> "0"]

\* hashlib.sha256(b"").hexdigest()
EmptyDigest == Sha256(<<"bytes">>)

\* hashlib.sha256(f"{a}{b}".encode()).hexdigest()
HashConcat(a, b) == Sha256(<<"concat", a, b>>)

(***************************************************************************)
(* Transaction.                                                            *)
(***************************************************************************)
\* Transaction.calculate_hash: sha256 of the sorted-key JSON of to_dict()
Transaction_calculate_hash(tx) == Sha256(<<"tx", tx>>)

\* payload values that are Python bytes objects, which json.dumps refuses
BytesObjects == {"bytes:e4"}

\* json.dumps(self.to_dict(), sort_keys=True) returns rather than raising
\* TypeError
JsonSerializable(tx) ==
    \A k \in DOMAIN tx.payload : tx.payload[k] \notin BytesObjects

\* the placeholder signature the construction helpers compute
SignatureOf(sender, data_hash) == Prefix32(HashConcat(sender, data_hash))

Transaction(id, type, patient, data_hash, payload, sender, signature) ==
    [transaction_id |-> id, transaction_type |-> type, patient_id |-> patient,
     data_hash |-> data_hash, payload |-> payload, timestamp |-> 0,
     sender |-> sender, signature |-> signature, gas_fee |-> GasFeeMilli]

\* create_patient_data_transaction, with the id left to the caller
PatientDataTx(id, patient, device, enc, sender) ==
    LET dh == Sha256(<<"data", enc>>)
    IN Transaction(id, "patient_data", patient, dh,
                   [device_id |-> device, data_type |-> "heart_rate",
                    encrypted_data |-> enc],
                   sender, SignatureOf(sender, dh))

\* a PATIENT_DATA transaction whose payload lacks encrypted_data
MalformedTx(id, patient, device, enc, sender) ==
    LET dh == Sha256(<<"data", enc>>)
    IN Transaction(id, "patient_data", patient, dh,
                   [device_id |-> device, data_type |-> "heart_rate"],
                   sender, SignatureOf(sender, dh))

\* a MEDICAL_RECORD transaction: no payload requirement
MedicalRecordTx(id, patient, ref, sender) ==
    LET dh == Sha256(<<"data", ref>>)
    IN Transaction(id, "medical_record", patient, dh,
                   [record_ref |-> ref], sender, SignatureOf(sender, dh))

\* The transactions collaborators submit.
TxInputs ==
    { PatientDataTx("tx_a", "p1", "dev1", "e1", "dev1"),
      MedicalRecordTx("tx_b", "p2", "r1", "validator_1"),
      MalformedTx("tx_c", "p1", "dev1", "e2", "dev1"),
      MalformedTx("tx_a", "p1", "dev1", "e3", "dev1") }

(***************************************************************************)
(* ConsensusEngine.                                                        *)
(***************************************************************************)
Max(a, b) == IF a >= b THEN a ELSE b

\* a tolerance without the floor of one
byzantine_tolerance_NoFloor(vs) == (Len(vs) - 1) \div 3

\* ConsensusEngine.__init__
byzantine_tolerance(vs) == Max(1, (Len(vs) - 1) \div 3)

\* a threshold with the tolerance added instead of subtracted
consensus_threshold_Plus(vs) == Len(vs) + byzantine_tolerance(vs)

consensus_threshold(vs) == Len(vs) - byzantine_tolerance(vs)

_verify_signature(tx) ==
    tx.signature = Prefix32(HashConcat(tx.sender, tx.data_hash))

_validate_patient_data(tx) ==
    \A f \in {"device_id", "data_type", "encrypted_data"} : f \in DOMAIN tx.payload

\* an access-grant check that forgets the duration field
_validate_access_grant_NoDuration(tx) ==
    \A f \in {"requester_id", "data_types"} : f \in DOMAIN tx.payload

_validate_access_grant(tx) ==
    \A f \in {"requester_id", "data_types", "duration"} : f \in DOMAIN tx.payload

\* Python's None, written as a record so that every payload is a function; no
\* payload dict built here has this field
NoneObject == [py_type |-> "NoneType"]

\* "field in payload" raises TypeError when the payload is not a container
MembershipRaises(payload) == payload = NoneObject

\* validate_transaction, the try block
validate_transaction_try(tx) ==
    IF tx.transaction_id = "" \/ tx.patient_id = "" THEN FALSE
    ELSE IF ~_verify_signature(tx) THEN FALSE
    ELSE IF tx.transaction_type = "patient_data" THEN _validate_patient_data(tx)
    ELSE IF tx.transaction_type = "access_grant" THEN _validate_access_grant(tx)
    ELSE TRUE

\* the try block raises: it reaches a field check on a payload that raises
ValidationRaises(tx) ==
    /\ tx.transaction_id # "" /\ tx.patient_id # ""
    /\ _verify_signature(tx)
    /\ tx.transaction_type \in {"patient_data", "access_grant"}
    /\ MembershipRaises(tx.payload)

\* a validation that accepts the transaction whose check raised
validate_transaction_AcceptOnError(tx) ==
    IF ValidationRaises(tx) THEN TRUE ELSE validate_transaction_try(tx)

\* validate_transaction: "except Exception" answers False
validate_transaction(tx) ==
    IF ValidationRaises(tx) THEN FALSE ELSE validate_transaction_try(tx)

\* the ids of the members of txs whose validation verdict is want, in order
RECURSIVE IdsWhere(_, _)
IdsWhere(txs, want) ==
    IF txs = <<>> THEN <<>>
    ELSE LET rest == IdsWhere(Tail(txs), want)
         IN IF validate_transaction(Head(txs)) = want
            THEN <<Head(txs).transaction_id>> \o rest
            ELSE rest

\* reach_consensus, "Simulate PBFT voting": every validator is counted as voting
QuorumStatus(vs) ==
    LET votes_needed == consensus_threshold(vs)
        votes_received == Len(vs)
    IN IF votes_received >= votes_needed THEN "validated" ELSE "rejected"

reach_consensus(vs, txs, t) ==
    [status |-> QuorumStatus(vs),
     validated_transactions |-> IdsWhere(txs, TRUE),
     rejected_transactions |-> IdsWhere(txs, FALSE),
     validator_votes |-> <<>>,
     consensus_time |-> t]

(***************************************************************************)
(* Block.                                                                  *)
(***************************************************************************)
\* a block hash that covers the transaction bodies instead of their count
Block_calculate_hash_WithBodies(b) ==
    Sha256(<<"block",
             [block_number |-> b.block_number,
              previous_hash |-> b.previous_hash,
              timestamp |-> b.timestamp,
              merkle_root |-> b.merkle_root,
              validator |-> b.validator,
              nonce |-> b.nonce,
              transactions |-> b.transactions]>>)

\* Block.calculate_hash: the signature and the transaction bodies are not hashed
Block_calculate_hash(b) ==
    Sha256(<<"block",
             [block_number |-> b.block_number,
              previous_hash |-> b.previous_hash,
              timestamp |-> b.timestamp,
              merkle_root |-> b.merkle_root,
              validator |-> b.validator,
              nonce |-> b.nonce,
              transaction_count |-> Len(b.transactions)]>>)

\* a pass that carries an unpaired last hash up as it is
MerkleLevel_PromoteOdd(h) ==
    [k \in 1..((Len(h) + 1) \div 2) |->
        IF 2 * k <= Len(h) THEN HashConcat(h[2 * k - 1], h[2 * k])
        ELSE h[2 * k - 1]]

\* a pass that hashes every left node with itself
MerkleLevel_LeftOnly(h) ==
    [k \in 1..((Len(h) + 1) \div 2) |->
        HashConcat(h[2 * k - 1], h[2 * k - 1])]

\* one pass of the while loop of calculate_merkle_root
MerkleLevel(h) ==
    [k \in 1..((Len(h) + 1) \div 2) |->
        IF 2 * k <= Len(h) THEN HashConcat(h[2 * k - 1], h[2 * k])
        ELSE HashConcat(h[2 * k - 1], h[2 * k - 1])]

RECURSIVE MerkleFold(_)
MerkleFold(h) == IF Len(h) > 1 THEN MerkleFold(MerkleLevel(h)) ELSE h[1]

\* a root of zeros for a block without transactions
calculate_merkle_root_ZeroForEmpty(txs) ==
    IF txs = <<>> THEN ZeroHash
    ELSE MerkleFold([i \in 1..Len(txs) |-> Transaction_calculate_hash(txs[i])])

\* Block.calculate_merkle_root
calculate_merkle_root(txs) ==
    IF txs = <<>> THEN EmptyDigest
    ELSE MerkleFold([i \in 1..Len(txs) |-> Transaction_calculate_hash(txs[i])])

Block(number, prev, t, txs, root, validator, signature) ==
    [block_number |-> number, previous_hash |-> prev, timestamp |-> t,
     transactions |-> txs, merkle_root |-> root, validator |-> validator,
     signature |-> signature, nonce |-> 0]

(***************************************************************************)
(* BlockchainCore.                                                         *)
(***************************************************************************)
\* _create_genesis_block
GenesisBlock(t) ==
    Block(0, ZeroHash, t, <<>>, calculate_merkle_root(<<>>), "genesis",
          "genesis_signature")

get_latest_block(ch) == ch[Len(ch)]

InList(x, xs) == \E i \in 1..Len(xs) : xs[i] = x

\* a selection by each transaction's own verdict
ValidatedTxs_ByVerdict(pending, consensus_result) ==
    SelectSeq(pending, LAMBDA tx : validate_transaction(tx))

\* mine_block, "Get validated transactions": selection by transaction_id
ValidatedTxs(pending, consensus_result) ==
    SelectSeq(pending,
              LAMBDA tx : InList(tx.transaction_id,
                                 consensus_result.validated_transactions))

\* mine_block, "Create new block" and the Merkle root, before the signature
UnsignedBlock(ch, txs, validator_address, t) ==
    Block(Len(ch), Block_calculate_hash(get_latest_block(ch)), t,
          txs, calculate_merkle_root(txs), validator_address, "")

\* a block linked to the genesis block instead of the latest one
NewBlock_LinkGenesis(ch, txs, validator_address, t) ==
    LET unsigned == [UnsignedBlock(ch, txs, validator_address, t) EXCEPT
                       !.previous_hash = Block_calculate_hash(ch[1])]
    IN [unsigned EXCEPT
          !.signature = HashConcat(validator_address, Block_calculate_hash(unsigned))]

\* a block numbered len(chain) + 1
NewBlock_NumberFromOne(ch, txs, validator_address, t) ==
    LET unsigned == [UnsignedBlock(ch, txs, validator_address, t) EXCEPT
                       !.block_number = Len(ch) + 1]
    IN [unsigned EXCEPT
          !.signature = HashConcat(validator_address, Block_calculate_hash(unsigned))]

\* mine_block, the block as appended: block hash computed, signature assigned
NewBlock(ch, txs, validator_address, t) ==
    LET unsigned == UnsignedBlock(ch, txs, validator_address, t)
    IN [unsigned EXCEPT
          !.signature = HashConcat(validator_address, Block_calculate_hash(unsigned))]

\* a drain that empties the pool
Drain_ClearAll(pending, txs) == <<>>

\* a drain that removes nothing
Drain_KeepAll(pending, txs) == pending

\* mine_block, "Clear processed transactions": removal by transaction_id
Drain(pending, txs) ==
    LET processed_tx_ids == {txs[i].transaction_id : i \in 1..Len(txs)}
    IN SelectSeq(pending, LAMBDA tx : tx.transaction_id \notin processed_tx_ids)

\* get_chain_status
get_chain_status ==
    [total_blocks |-> Len(chain),
     pending_transactions |-> Len(pending_transactions),
     total_smart_contracts |-> Cardinality(DOMAIN smart_contracts),
     validators |-> validators,
     latest_block_hash |-> Block_calculate_hash(get_latest_block(chain)),
     chain_height |-> Len(chain) - 1]

\* the entries of one block with the patient filter left out
BlockHistory_AllPatients(b, patient_id) ==
    [i \in 1..Len(b.transactions) |->
          [transaction_id |-> b.transactions[i].transaction_id,
           block_number |-> b.block_number,
           timestamp |-> b.transactions[i].timestamp,
           transaction_type |-> b.transactions[i].transaction_type,
           data_hash |-> b.transactions[i].data_hash]]

\* the history entries of one block, in block position order
BlockHistory(b, patient_id) ==
    LET mine == SelectSeq(b.transactions, LAMBDA tx : tx.patient_id = patient_id)
    IN [i \in 1..Len(mine) |->
          [transaction_id |-> mine[i].transaction_id,
           block_number |-> b.block_number,
           timestamp |-> mine[i].timestamp,
           transaction_type |-> mine[i].transaction_type,
           data_hash |-> mine[i].data_hash]]

RECURSIVE HistoryUpTo(_, _)
HistoryUpTo(n, patient_id) ==
    IF n = 0 THEN <<>>
    ELSE HistoryUpTo(n - 1, patient_id) \o BlockHistory(chain[n], patient_id)

\* get_transaction_history
get_transaction_history(patient_id) == HistoryUpTo(Len(chain), patient_id)

(***************************************************************************)
(* Inputs.                                                                 *)
(***************************************************************************)
ValidatorLists ==
    { <<"validator_1", "validator_2", "validator_3">>, <<>> }

MinerAddresses == {"validator_1", "admin_miner"}

Patients == {"p1", "p2"}

Miners == {"m1", "m2"}

\* a mine_block call not in flight; the flags say what ran during its last run
IdleMiner == [pc |-> "idle", saw_submit |-> FALSE, saw_commit |-> FALSE]

NoSubmissions == [tx \in TxInputs |-> 0]

(***************************************************************************)
(* Initial state: BlockchainCore.__init__. The calls explored all fall in   *)
(* the second the chain is built in (no operation of the core waits), so   *)
(* every timestamp they read is that second.                               *)
(***************************************************************************)
Init ==
    /\ now = 0
    /\ validators \in ValidatorLists
    /\ chain = <<GenesisBlock(now)>>
    /\ pending_transactions = <<>>
    /\ transaction_pool = <<>>
    /\ smart_contracts = <<>>
    /\ result = [op |-> "init"]
    /\ submitted = NoSubmissions
    /\ miner = [m \in Miners |-> IdleMiner]

(***************************************************************************)
(* Operations, each one whole call.                                        *)
(***************************************************************************)
\* a dict that forgets every other key on assignment
Put_OnlyLast(d, k, v) == [x \in {k} |-> v]

\* a dict that keeps the first value stored under a key
Put_KeepFirst(d, k, v) == [x \in DOMAIN d \cup {k} |-> IF x \in DOMAIN d THEN d[x] ELSE v]

\* dict assignment d[k] = v
Put(d, k, v) == [x \in DOMAIN d \cup {k} |-> IF x = k THEN v ELSE d[x]]

RECURSIVE SumOver(_, _)
SumOver(f, S) ==
    IF S = {} THEN 0
    ELSE LET x == CHOOSE y \in S : TRUE IN f[x] + SumOver(f, S \ {x})

\* the number of submissions accepted so far
Submissions == SumOver(submitted, DOMAIN submitted)

\* submit_transaction: no validation, pool and lookup updated unconditionally
submit_transaction(tx) ==
    /\ Submissions < MaxSubmits
    /\ transaction_pool' = Put(transaction_pool, tx.transaction_id, tx)
    /\ pending_transactions' = Append(pending_transactions, tx)
    /\ submitted' = [submitted EXCEPT ![tx] = @ + 1]
    /\ result' = [op |-> "submit_transaction",
                  transaction_id |-> tx.transaction_id,
                  status |-> "submitted", timestamp |-> now]
    /\ miner' = [m \in Miners |->
                    IF miner[m].pc = "consensus"
                    THEN [miner[m] EXCEPT !.saw_submit = TRUE]
                    ELSE miner[m]]
    /\ UNCHANGED <<chain, smart_contracts, validators, now>>

\* the value mine_block returns on success
MineSuccess(new_block, block_hash, txs, consensus_result) ==
    [op |-> "mine_block", status |-> "success",
     block_number |-> new_block.block_number,
     block_hash |-> block_hash,
     transactions_processed |-> Len(txs),
     consensus_result |-> consensus_result]

\* an empty-pool check that never answers yes
NothingToMine_Never(pending) == FALSE

\* mine_block: "if not self.pending_transactions"
NothingToMine(pending) == pending = <<>>

\* a block put in front of the chain
AppendBlock_Prepend(ch, new_block) == <<new_block>> \o ch

\* mine_block: self.chain.append(new_block)
AppendBlock(ch, new_block) == Append(ch, new_block)

\* calculate_merkle_root hashes every transaction of the new block: one
\* that json.dumps refuses makes it raise
MerkleRaises(txs) == \E i \in 1..Len(txs) : ~JsonSerializable(txs[i])

\* mine_block left by an exception: no value is returned
MineRaised == [op |-> "mine_block", raised |-> "TypeError"]

\* mine_block from "Get validated transactions" to its return: no await in
\* between, so the selection, the append and the drain are one step; an
\* exception of calculate_merkle_root leaves before the append, uncaught
Commit(validator_address, consensus_result) ==
    LET validated_txs == ValidatedTxs(pending_transactions, consensus_result)
    IN IF MerkleRaises(validated_txs)
       THEN /\ result' = MineRaised
            /\ UNCHANGED <<chain, pending_transactions>>
       ELSE LET new_block ==
                    NewBlock(chain, validated_txs, validator_address, now)
                block_hash ==
                    Block_calculate_hash(
                        UnsignedBlock(chain, validated_txs, validator_address,
                                      now))
            IN /\ chain' = AppendBlock(chain, new_block)
               /\ pending_transactions' =
                     Drain(pending_transactions, validated_txs)
               /\ result' = MineSuccess(new_block, block_hash, validated_txs,
                                        consensus_result)

\* mine_block, run without interruption
mine_block(validator_address) ==
    /\ NothingToMine(pending_transactions) \/ Len(chain) < MaxChain
    /\ IF NothingToMine(pending_transactions)
       THEN /\ result' = [op |-> "mine_block", status |-> "no_transactions"]
            /\ UNCHANGED <<chain, pending_transactions>>
       ELSE LET consensus_result ==
                    reach_consensus(validators, pending_transactions, now)
            IN IF consensus_result.status # "validated"
               THEN /\ result' = [op |-> "mine_block",
                                  status |-> "consensus_failed",
                                  result |-> consensus_result]
                    /\ UNCHANGED <<chain, pending_transactions>>
               ELSE Commit(validator_address, consensus_result)
    /\ UNCHANGED <<transaction_pool, smart_contracts, validators, now,
                   submitted, miner>>

\* SmartContract.__init__
SmartContract(contract_id, patient_id, t) ==
    [contract_id |-> contract_id, patient_id |-> patient_id,
     access_rules |-> <<>>, created_at |-> t]

\* f"contract_{patient_id}_{int(time.time())}"
ContractId(patient_id, t) == <<"contract", patient_id, t>>

deploy_smart_contract(patient_id) ==
    /\ LET contract_id == ContractId(patient_id, now)
       IN /\ smart_contracts' =
                 Put(smart_contracts, contract_id,
                     SmartContract(contract_id, patient_id, now))
          /\ result' = [op |-> "deploy_smart_contract",
                        contract_id |-> contract_id]
    /\ UNCHANGED <<chain, pending_transactions, transaction_pool, validators,
                   now, submitted, miner>>

ChainStatus ==
    /\ result' = [op |-> "get_chain_status", chain_status |-> get_chain_status]
    /\ UNCHANGED <<chain, pending_transactions, transaction_pool,
                   smart_contracts, validators, now, submitted, miner>>

TransactionHistory(patient_id) ==
    /\ result' = [op |-> "get_transaction_history", patient_id |-> patient_id,
                  history |-> get_transaction_history(patient_id)]
    /\ UNCHANGED <<chain, pending_transactions, transaction_pool,
                   smart_contracts, validators, now, submitted, miner>>

SubmitStep == \E tx \in TxInputs : submit_transaction(tx)

MineStep == \E v \in MinerAddresses : mine_block(v)

DeployStep == \E p \in Patients : deploy_smart_contract(p)

HistoryStep == \E p \in Patients : TransactionHistory(p)

Next ==
    \/ SubmitStep
    \/ MineStep
    \/ DeployStep
    \/ ChainStatus
    \/ HistoryStep

Spec == Init /\ [][Next]_vars

(***************************************************************************)
(* Interleaved calls. The coroutines run on one event loop; a call can be  *)
(* suspended only at an await. mine_block awaits reach_consensus, which    *)
(* awaits validate_transaction once per transaction of the list it was     *)
(* handed; submit_transaction awaits nothing. Every such await is taken as *)
(* a point where other calls may run.                                      *)
(***************************************************************************)
InFlight == {m \in Miners : miner[m].pc = "consensus"}

\* mine_block up to its first await
MineBegin(m, validator_address) ==
    /\ miner[m].pc = "idle"
    /\ \/ NothingToMine(pending_transactions)
       \/ Len(chain) + Cardinality(InFlight) < MaxChain
    /\ IF NothingToMine(pending_transactions)
       THEN /\ result' = [op |-> "mine_block", status |-> "no_transactions"]
            /\ UNCHANGED miner
       ELSE /\ miner' = [miner EXCEPT ![m] =
                           [pc |-> "consensus",
                            validator_address |-> validator_address,
                            live |-> TRUE, batch |-> <<>>, idx |-> 1,
                            validated |-> <<>>, rejected |-> <<>>,
                            consensus_time |-> now,
                            saw_submit |-> FALSE, saw_commit |-> FALSE]]
            /\ UNCHANGED result
    /\ UNCHANGED <<chain, pending_transactions, transaction_pool,
                   smart_contracts, validators, now, submitted>>

\* the list reach_consensus iterates: the pool object it was handed, which
\* later appends extend until a drain rebinds self.pending_transactions
BatchOf(m) == IF miner[m].live THEN pending_transactions ELSE miner[m].batch

\* what a call suspended in reach_consensus holds once the pool is rebound
Detached(r) ==
    IF r.pc = "consensus"
    THEN [r EXCEPT !.live = FALSE, !.batch = (IF r.live THEN pending_transactions ELSE r.batch), !.saw_commit = TRUE]
    ELSE r

\* mine_block from one await of validate_transaction to the next, or to its
\* return when the list is exhausted
MineResume(m) ==
    /\ miner[m].pc = "consensus"
    /\ LET me == miner[m]
           tx == BatchOf(m)[me.idx]
           ok == validate_transaction(tx)
           validated == IF ok THEN Append(me.validated, tx.transaction_id)
                        ELSE me.validated
           rejected == IF ok THEN me.rejected
                       ELSE Append(me.rejected, tx.transaction_id)
           consensus_result ==
               [status |-> QuorumStatus(validators),
                validated_transactions |-> validated,
                rejected_transactions |-> rejected,
                validator_votes |-> <<>>,
                consensus_time |-> me.consensus_time]
           done == [pc |-> "idle", saw_submit |-> me.saw_submit,
                    saw_commit |-> me.saw_commit]
       IN IF me.idx < Len(BatchOf(m))
          THEN /\ miner' = [miner EXCEPT ![m] =
                              [me EXCEPT !.idx = @ + 1,
                                         !.validated = validated,
                                         !.rejected = rejected]]
               /\ UNCHANGED <<chain, pending_transactions, result>>
          ELSE IF consensus_result.status # "validated"
          THEN /\ result' = [op |-> "mine_block",
                             status |-> "consensus_failed",
                             result |-> consensus_result]
               /\ miner' = [miner EXCEPT ![m] = done]
               /\ UNCHANGED <<chain, pending_transactions>>
          ELSE /\ Commit(me.validator_address, consensus_result)
               /\ miner' = [k \in Miners |->
                              IF k = m THEN done ELSE Detached(miner[k])]
    /\ UNCHANGED <<transaction_pool, smart_contracts, validators, now,
                   submitted>>

MineBeginStep == \E m \in Miners, v \in MinerAddresses : MineBegin(m, v)

MineResumeStep == \E m \in Miners : MineResume(m)

NextConc ==
    \/ SubmitStep
    \/ MineBeginStep
    \/ MineResumeStep

\* the chain as main.py builds it, with three validators
InitConc == Init /\ Len(validators) = 3

SpecConc == InitConc /\ [][NextConc]_vars

(***************************************************************************)
(* The ConsensusEngine on its own: an engine built on a validator list of  *)
(* any length up to MaxValidators, validate_transaction applied to every   *)
(* shape of transaction, reach_consensus applied to every short batch.     *)
(***************************************************************************)
\* a list of n validator addresses, named as initialize_blockchain names them
ValidatorList(n) == [i \in 1..n |-> "validator_" \o ToString(i)]

EngineValidatorLists == {ValidatorList(n) : n \in 0..MaxValidators}

\* TransactionType
TransactionTypes ==
    {"patient_data", "device_registration", "access_grant", "medical_record",
     "consent_update"}

\* payloads: the empty dict, the full and the short PATIENT_DATA payload, the
\* full and the short ACCESS_GRANT payload, and None
Payloads ==
    { <<>>, NoneObject,
      [device_id |-> "dev1", data_type |-> "heart_rate", encrypted_data |-> "e1"],
      [device_id |-> "dev1", data_type |-> "heart_rate"],
      [requester_id |-> "dr_a", data_types |-> <<"heart_rate">>, duration |-> 1],
      [requester_id |-> "dr_a", data_types |-> <<"heart_rate">>] }

\* signatures: the placeholder of sender dev1, the untruncated digest, and the
\* placeholder computed over another data hash
Signatures ==
    { SignatureOf("dev1", "h1"), HashConcat("dev1", "h1"),
      SignatureOf("dev1", "h2") }

\* every Transaction the fields above build
TxUniverse ==
    { Transaction(id, type, patient, "h1", payload, sender, signature) :
        id \in {"", "tx_a"}, type \in TransactionTypes, patient \in {"", "p1"},
        payload \in Payloads, sender \in {"dev1", "dev2"},
        signature \in Signatures }

RECURSIVE SeqsUpTo(_, _)
SeqsUpTo(S, n) ==
    IF n = 0 THEN {<<>>}
    ELSE LET shorter == SeqsUpTo(S, n - 1)
         IN shorter \cup {Append(xs, x) : xs \in shorter, x \in S}

\* a signed PATIENT_DATA transaction whose payload is None
NonePayloadTx ==
    LET dh == Sha256(<<"data", "e4">>)
    IN Transaction("tx_n", "patient_data", "p1", dh, NoneObject, "dev1",
                   SignatureOf("dev1", dh))

Batches == SeqsUpTo(TxInputs \cup {NonePayloadTx}, MaxBatch)

\* ConsensusEngine.__init__: the fields of the engine just built
NewConsensusEngine ==
    /\ result' = [op |-> "ConsensusEngine",
                  byzantine_tolerance |-> byzantine_tolerance(validators),
                  consensus_threshold |-> consensus_threshold(validators)]
    /\ UNCHANGED <<chain, pending_transactions, transaction_pool,
                   smart_contracts, validators, now, submitted, miner>>

ValidateTransaction(tx) ==
    /\ result' = [op |-> "validate_transaction", transaction |-> tx,
                  valid |-> validate_transaction(tx)]
    /\ UNCHANGED <<chain, pending_transactions, transaction_pool,
                   smart_contracts, validators, now, submitted, miner>>

ReachConsensus(txs) ==
    /\ result' = [op |-> "reach_consensus", transactions |-> txs,
                  consensus_result |-> reach_consensus(validators, txs, now)]
    /\ UNCHANGED <<chain, pending_transactions, transaction_pool,
                   smart_contracts, validators, now, submitted, miner>>

ValidateStep == \E tx \in TxUniverse : ValidateTransaction(tx)

ConsensusStep == \E txs \in Batches : ReachConsensus(txs)

InitEngine ==
    /\ now = 0
    /\ validators \in EngineValidatorLists
    /\ chain = <<GenesisBlock(now)>>
    /\ pending_transactions = <<>>
    /\ transaction_pool = <<>>
    /\ smart_contracts = <<>>
    /\ result = [op |-> "init"]
    /\ submitted = NoSubmissions
    /\ miner = [m \in Miners |-> IdleMiner]

NextEngine ==
    \/ NewConsensusEngine
    \/ ValidateStep
    \/ ConsensusStep

SpecEngine == InitEngine /\ [][NextEngine]_vars

(***************************************************************************)
(* SmartContract: the access rules of one patient's contract. The clock is *)
(* read in whole seconds; a run advances it by one second or by one hour.  *)
(***************************************************************************)
\* f"{requester_id}_{int(time.time())}"
AccessKey(requester_id, t) == <<requester_id, t>>

\* time.time() + (duration_hours * 3600)
ExpiryTime(t, duration_hours) == t + duration_hours * SecondsPerHour

\* a rule stored already revoked
AccessRule_Inactive(requester_id, data_types, t, expiry_time) ==
    [requester_id |-> requester_id, data_types |-> data_types,
     granted_at |-> t, expires_at |-> expiry_time, active |-> FALSE]

\* grant_access: the dict stored under the access key
AccessRule(requester_id, data_types, t, expiry_time) ==
    [requester_id |-> requester_id, data_types |-> data_types,
     granted_at |-> t, expires_at |-> expiry_time, active |-> TRUE]

\* grant_access: access_rules after the call
grant_access(rules, requester_id, data_types, duration_hours, t) ==
    Put(rules, AccessKey(requester_id, t),
        AccessRule(requester_id, data_types, t, ExpiryTime(t, duration_hours)))

\* grant_access: the dict returned
GrantReturn(requester_id, data_types, duration_hours, t) ==
    [access_key |-> AccessKey(requester_id, t), granted |-> TRUE,
     expires_at |-> ExpiryTime(t, duration_hours), permissions |-> data_types]

\* a revocation that changes nothing
revoke_access_Keep(rules, access_key) == rules

\* revoke_access: access_rules after the call
revoke_access(rules, access_key) ==
    IF access_key \in DOMAIN rules
    THEN [rules EXCEPT ![access_key].active = FALSE]
    ELSE rules

\* a revocation that answers yes only for a key still active
RevokeReturn_WasActive(rules, access_key) ==
    access_key \in DOMAIN rules /\ rules[access_key].active

\* revoke_access: the value returned
RevokeReturn(rules, access_key) == access_key \in DOMAIN rules

\* an expiry test that still admits the instant of expiry
validate_access_Inclusive(rules, requester_id, data_type, t) ==
    \E k \in DOMAIN rules :
        /\ rules[k].requester_id = requester_id
        /\ rules[k].active
        /\ t <= rules[k].expires_at
        /\ InList(data_type, rules[k].data_types)

\* validate_access
validate_access(rules, requester_id, data_type, t) ==
    \E k \in DOMAIN rules :
        /\ rules[k].requester_id = requester_id
        /\ rules[k].active
        /\ t < rules[k].expires_at
        /\ InList(data_type, rules[k].data_types)

Requesters == {"dr_a", "dr_b"}

DataTypes == {"heart_rate", "blood_pressure"}

\* the grants callers ask for: one data type for two hours, two for one hour
GrantRequests ==
    { [data_types |-> <<"heart_rate">>, duration_hours |-> 2],
      [data_types |-> <<"heart_rate", "blood_pressure">>, duration_hours |-> 1] }

\* the seconds and hours the clock has been advanced by
ClockSteps == (now % SecondsPerHour) + (now \div SecondsPerHour)

\* the keys a caller may hand to revoke_access: those it was given, and those
\* a grant at this second would have produced
KeysTried(rules) == DOMAIN rules \cup {AccessKey(r, now) : r \in Requesters}

\* the clock moves on between two calls; no returned value is current then
Tick(d) ==
    /\ ClockSteps < MaxClockSteps
    /\ now' = now + d
    /\ result' = [op |-> "time"]
    /\ UNCHANGED <<chain, pending_transactions, transaction_pool,
                   smart_contracts, validators, submitted, miner>>

\* the deployment of the one contract whose rules are studied
DeployFirst(patient_id) ==
    /\ smart_contracts = <<>>
    /\ deploy_smart_contract(patient_id)

\* get_smart_contract(c).grant_access(...)
GrantAccess(c, requester_id, data_types, duration_hours) ==
    LET rules == smart_contracts[c].access_rules
    IN /\ \/ Cardinality(DOMAIN rules) < MaxRules
          \/ AccessKey(requester_id, now) \in DOMAIN rules
       /\ smart_contracts' =
             [smart_contracts EXCEPT ![c].access_rules =
                 grant_access(rules, requester_id, data_types,
                              duration_hours, now)]
       /\ result' = [op |-> "grant_access", contract_id |-> c,
                     returned |-> GrantReturn(requester_id, data_types,
                                              duration_hours, now)]
       /\ UNCHANGED <<chain, pending_transactions, transaction_pool,
                      validators, now, submitted, miner>>

\* get_smart_contract(c).revoke_access(access_key)
RevokeAccess(c, access_key) ==
    LET rules == smart_contracts[c].access_rules
    IN /\ smart_contracts' =
             [smart_contracts EXCEPT ![c].access_rules =
                 revoke_access(rules, access_key)]
       /\ result' = [op |-> "revoke_access", contract_id |-> c,
                     before |-> rules, access_key |-> access_key,
                     revoked |-> RevokeReturn(rules, access_key)]
       /\ UNCHANGED <<chain, pending_transactions, transaction_pool,
                      validators, now, submitted, miner>>

\* get_smart_contract(c).validate_access(requester_id, data_type)
ValidateAccess(c, requester_id, data_type) ==
    LET rules == smart_contracts[c].access_rules
    IN /\ result' = [op |-> "validate_access", contract_id |-> c,
                     requester_id |-> requester_id, data_type |-> data_type,
                     allowed |-> validate_access(rules, requester_id,
                                                 data_type, now)]
       /\ UNCHANGED <<chain, pending_transactions, transaction_pool,
                      smart_contracts, validators, now, submitted, miner>>

TickStep == \E d \in {1, SecondsPerHour} : Tick(d)

DeployFirstStep == \E p \in {"p1"} : DeployFirst(p)

GrantStep ==
    \E c \in DOMAIN smart_contracts, r \in Requesters, g \in GrantRequests :
       GrantAccess(c, r, g.data_types, g.duration_hours)

RevokeStep ==
    \E c \in DOMAIN smart_contracts :
       \E k \in KeysTried(smart_contracts[c].access_rules) : RevokeAccess(c, k)

ValidateAccessStep ==
    \E c \in DOMAIN smart_contracts, r \in Requesters, d \in DataTypes :
       ValidateAccess(c, r, d)

NextAccess ==
    \/ TickStep
    \/ DeployFirstStep
    \/ GrantStep
    \/ RevokeStep
    \/ ValidateAccessStep

InitAccess == Init /\ Len(validators) = 3

SpecAccess == InitAccess /\ [][NextAccess]_vars

(***************************************************************************)
(* The contract registry: contracts deployed one after another, for the    *)
(* same patient or another one, each collecting grants, as the clock runs. *)
(***************************************************************************)
\* BlockchainCore.deploy_smart_contract, while the registry has room
DeployContract(patient_id) ==
    /\ \/ Cardinality(DOMAIN smart_contracts) < MaxContracts
       \/ ContractId(patient_id, now) \in DOMAIN smart_contracts
    /\ deploy_smart_contract(patient_id)

DeployContractStep == \E p \in Patients : DeployContract(p)

NextRegistry ==
    \/ TickStep
    \/ DeployContractStep
    \/ GrantStep

SpecRegistry == InitAccess /\ [][NextRegistry]_vars

(***************************************************************************)
(* Block.calculate_merkle_root on its own, applied to every transaction    *)
(* list of up to MaxLeaves transactions.                                   *)
(***************************************************************************)
TxLists == SeqsUpTo(TxInputs, MaxLeaves)

\* Block(transactions = txs).calculate_merkle_root()
MerkleRoot(txs) ==
    /\ result' = [op |-> "calculate_merkle_root", transactions |-> txs,
                  merkle_root |-> calculate_merkle_root(txs)]
    /\ UNCHANGED <<chain, pending_transactions, transaction_pool,
                   smart_contracts, validators, now, submitted, miner>>

MerkleStep == \E txs \in TxLists : MerkleRoot(txs)

NextMerkle == MerkleStep

SpecMerkle == InitConc /\ [][NextMerkle]_vars

(***************************************************************************)
(* The ledger fed with transactions the Transaction type admits but the    *)
(* construction helpers do not build: an empty sender, a payload value     *)
(* that is a bytes object.                                                 *)
(***************************************************************************)
\* a PATIENT_DATA transaction whose encrypted_data is a bytes object
BytesTx(id, patient, device, sender) ==
    LET dh == Sha256(<<"data", "e4">>)
    IN Transaction(id, "patient_data", patient, dh,
                   [device_id |-> device, data_type |-> "heart_rate",
                    encrypted_data |-> "bytes:e4"],
                   sender, SignatureOf(sender, dh))

EdgeInputs ==
    { PatientDataTx("tx_a", "p1", "dev1", "e1", "dev1"),
      PatientDataTx("tx_d", "p1", "dev1", "e5", ""),
      BytesTx("tx_e", "p2", "dev1", "dev1") }

SubmitEdgeStep == \E tx \in EdgeInputs : submit_transaction(tx)

InitEdge ==
    /\ now = 0
    /\ validators = <<"validator_1", "validator_2", "validator_3">>
    /\ chain = <<GenesisBlock(now)>>
    /\ pending_transactions = <<>>
    /\ transaction_pool = <<>>
    /\ smart_contracts = <<>>
    /\ result = [op |-> "init"]
    /\ submitted = [tx \in EdgeInputs |-> 0]
    /\ miner = [m \in Miners |-> IdleMiner]

NextEdge ==
    \/ SubmitEdgeStep
    \/ MineStep

SpecEdge == InitEdge /\ [][NextEdge]_vars

(***************************************************************************)
(* Helpers of the properties.                                              *)
(***************************************************************************)
\* how many members of xs equal x
RECURSIVE Count(_, _)
Count(x, xs) ==
    IF xs = <<>> THEN 0
    ELSE (IF Head(xs) = x THEN 1 ELSE 0) + Count(x, Tail(xs))

\* how many members of xs carry the transaction id
RECURSIVE CountId(_, _)
CountId(id, xs) ==
    IF xs = <<>> THEN 0
    ELSE (IF Head(xs).transaction_id = id THEN 1 ELSE 0) + CountId(id, Tail(xs))

\* the transactions of blocks 1..n of ch, concatenated
RECURSIVE CommittedUpTo(_, _)
CommittedUpTo(ch, n) ==
    IF n = 0 THEN <<>> ELSE CommittedUpTo(ch, n - 1) \o ch[n].transactions

Committed == CommittedUpTo(chain, Len(chain))

TxIds == {tx.transaction_id : tx \in TxInputs}

Passing(txs) == SelectSeq(txs, LAMBDA tx : validate_transaction(tx))

Failing(txs) == SelectSeq(txs, LAMBDA tx : ~validate_transaction(tx))

IsPrefix(s, t) == Len(s) <= Len(t) /\ \A i \in 1..Len(s) : t[i] = s[i]

MinedOk == result.op = "mine_block" /\ result.status = "success"

\* sha256 of one string, as a test fixture would compute it
HashOf(x) == Sha256(<<"str", x>>)

\* xs with the members at positions i and j exchanged
Swap(xs, i, j) ==
    [k \in 1..Len(xs) |-> IF k = i THEN xs[j] ELSE IF k = j THEN xs[i] ELSE xs[k]]

(***************************************************************************)
(* C1. Chain linkage: every block after the genesis block carries the      *)
(* hash of the block before it, computed on that block as it now is; the   *)
(* genesis block has number 0 and a previous_hash of 64 zeros.             *)
(***************************************************************************)
C1_ChainLinkage ==
    /\ chain[1].block_number = 0
    /\ chain[1].previous_hash = ZeroHash
    /\ Len(chain[1].previous_hash) = 64
    /\ \A k \in 1..64 : chain[1].previous_hash[k] = "0"
    /\ \A i \in 2..Len(chain) :
          chain[i].previous_hash = Block_calculate_hash(chain[i - 1])

C1_Witness == Len(chain) = 3 /\ chain[2].transactions # <<>>

(***************************************************************************)
(* C2. A successful mine_block puts no pending transaction that fails      *)
(* validate_transaction into the new block, and every such transaction is  *)
(* still pending after the call.                                           *)
(***************************************************************************)
C2_RejectedStayOut ==
    [][\A v \in MinerAddresses :
          (mine_block(v) /\ result'.status = "success") =>
             \A i \in 1..Len(pending_transactions) :
                ~validate_transaction(pending_transactions[i]) =>
                   /\ Count(pending_transactions[i],
                            chain'[Len(chain')].transactions) = 0
                   /\ Count(pending_transactions[i], pending_transactions') > 0]_vars

(***************************************************************************)
(* C3. A successful mine_block on a pool of v passing and r failing        *)
(* transactions commits exactly the v passing ones in pool order, reports  *)
(* transactions_processed = v, leaves exactly the r failing ones pending   *)
(* in their order, and raises chain_height by exactly 1.                   *)
(***************************************************************************)
C3_MineSplitsPool ==
    [][\A v \in MinerAddresses :
          (mine_block(v) /\ result'.status = "success") =>
             /\ chain'[Len(chain')].transactions = Passing(pending_transactions)
             /\ result'.transactions_processed = Len(Passing(pending_transactions))
             /\ pending_transactions' = Failing(pending_transactions)
             /\ Len(chain') - 1 = (Len(chain) - 1) + 1]_vars

(***************************************************************************)
(* C4. Every transaction id occurs at most once over all committed blocks: *)
(* in at most one block and at most once inside it.                        *)
(***************************************************************************)
C4_IdCommittedOnce == \A id \in TxIds : CountId(id, Committed) <= 1

(***************************************************************************)
(* C5. No transaction id held in the pending pool is the id of a           *)
(* transaction in a committed block.                                       *)
(***************************************************************************)
C5_PendingNotCommitted ==
    \A id \in TxIds :
        CountId(id, pending_transactions) = 0 \/ CountId(id, Committed) = 0

(***************************************************************************)
(* C8. The chain is append-only: every step leaves the chain it found as   *)
(* a prefix of the chain it leaves, blocks and transaction lists unaltered.*)
(***************************************************************************)
C8_AppendOnly == [][IsPrefix(chain, chain')]_vars

C8_Witness == Len(chain) = 3 /\ result.op = "deploy_smart_contract"

(***************************************************************************)
(* C9. chain[i].block_number = i for every 0-based index i, and a          *)
(* successful mine_block returns the chain length found before the call.   *)
(***************************************************************************)
C9_BlockNumbering ==
    /\ \A i \in 1..Len(chain) : chain[i].block_number = i - 1
    /\ MinedOk => result.block_number = Len(chain) - 1

C9_Witness == MinedOk /\ Len(chain) = 3

(***************************************************************************)
(* C10. mine_block on an empty pending pool returns no_transactions and    *)
(* leaves chain, pending pool, transaction lookup and contracts unchanged. *)
(***************************************************************************)
C10_EmptyPoolNoChange ==
    [][\A v \in MinerAddresses :
          (mine_block(v) /\ pending_transactions = <<>>) =>
             /\ result'.status = "no_transactions"
             /\ UNCHANGED <<chain, pending_transactions, transaction_pool,
                            smart_contracts>>]_vars

C10_Witness ==
    /\ result.op = "mine_block"
    /\ result.status = "no_transactions"
    /\ Len(chain) > 1
    /\ DOMAIN transaction_pool # {}
    /\ DOMAIN smart_contracts # {}

(***************************************************************************)
(* C6. With submit_transaction calls landing while a mine_block is in      *)
(* flight, every accepted submission is in exactly one place, a committed  *)
(* block or the pending pool: none is lost by the drain and none is both   *)
(* mined and left pending.                                                 *)
(***************************************************************************)
C6_NoneLostNoneDoubled ==
    \A tx \in TxInputs :
        Count(tx, Committed) + Count(tx, pending_transactions) = submitted[tx]

C6_Witness ==
    /\ MinedOk
    /\ \E m \in Miners : miner[m].pc = "idle" /\ miner[m].saw_submit
    /\ pending_transactions # <<>>
    /\ Committed # <<>>

(***************************************************************************)
(* C7. Two interleaved mine_block calls never append two blocks with the   *)
(* same block_number or the same previous_hash and never commit one        *)
(* submission twice; numbering and linkage hold once both have returned.   *)
(***************************************************************************)
C7_NoTwinBlocks ==
    /\ \A i, j \in 1..Len(chain) :
          i < j => /\ chain[i].block_number # chain[j].block_number
                   /\ chain[i].previous_hash # chain[j].previous_hash
    /\ \A tx \in TxInputs : Count(tx, Committed) <= submitted[tx]
    /\ InFlight = {} =>
          /\ \A i \in 1..Len(chain) : chain[i].block_number = i - 1
          /\ \A i \in 2..Len(chain) :
                chain[i].previous_hash = Block_calculate_hash(chain[i - 1])

C7_Witness ==
    /\ InFlight = {}
    /\ \A m \in Miners : miner[m].saw_commit \/ miner[m].saw_submit
    /\ \E m \in Miners : miner[m].saw_commit
    /\ Len(chain) = 3

(***************************************************************************)
(* C11. submit_transaction performs no validation: for any transaction,    *)
(* valid or invalid, it returns status "submitted", appends the            *)
(* transaction at the tail of the pending pool, records it under its id in *)
(* the lookup, and leaves the chain and the contracts unchanged.           *)
(***************************************************************************)
C11_SubmitUnconditional ==
    [][\A tx \in TxInputs :
          submit_transaction(tx) =>
             /\ result'.status = "submitted"
             /\ result'.transaction_id = tx.transaction_id
             /\ Len(pending_transactions') = Len(pending_transactions) + 1
             /\ pending_transactions'[Len(pending_transactions')] = tx
             /\ \A i \in 1..Len(pending_transactions) :
                   pending_transactions'[i] = pending_transactions[i]
             /\ tx.transaction_id \in DOMAIN transaction_pool'
             /\ transaction_pool'[tx.transaction_id] = tx
             /\ chain' = chain
             /\ smart_contracts' = smart_contracts]_vars

\* an invalid transaction was just accepted, under an id the lookup already
\* held for a valid one, with a block mined and a contract deployed before
C11_Witness ==
    /\ result.op = "submit_transaction"
    /\ Len(pending_transactions) >= 1
    /\ ~validate_transaction(pending_transactions[Len(pending_transactions)])
    /\ \E tx \in TxInputs :
          /\ validate_transaction(tx)
          /\ submitted[tx] >= 1
          /\ tx.transaction_id = result.transaction_id
    /\ Len(chain) >= 2
    /\ smart_contracts # <<>>

(***************************************************************************)
(* C12. For every non-empty validator set and every batch, a batch in      *)
(* which every transaction fails validation included, reach_consensus      *)
(* returns status VALIDATED; it never returns PENDING or REJECTED.         *)
(***************************************************************************)
C12_AlwaysValidated ==
    (result.op = "reach_consensus" /\ Len(validators) >= 1) =>
        /\ result.consensus_result.status = "validated"
        /\ result.consensus_result.status \notin {"pending", "rejected"}

\* one validator, a batch of two transactions that both fail validation
C12_Witness ==
    /\ result.op = "reach_consensus"
    /\ Len(validators) = 1
    /\ Len(result.transactions) = 2
    /\ \A i \in 1..2 : ~validate_transaction(result.transactions[i])
    /\ result.consensus_result.validated_transactions = <<>>
    /\ Len(result.consensus_result.rejected_transactions) = 2

(***************************************************************************)
(* C13. For a validator count n in 1..10 the engine's byzantine_tolerance  *)
(* is max(1, floor((n - 1) / 3)), that is 1 up to n = 6, 2 for n = 7..9    *)
(* and 3 for n = 10, and its consensus_threshold is n minus that           *)
(* tolerance (n = 4 gives 1 and 3, n = 7 gives 2 and 5).                   *)
(***************************************************************************)
C13_QuorumArithmetic ==
    (result.op = "ConsensusEngine" /\ Len(validators) \in 1..10) =>
        LET n == Len(validators)
            f == result.byzantine_tolerance
            t == result.consensus_threshold
        IN /\ f = <<1, 1, 1, 1, 1, 1, 2, 2, 2, 3>>[n]
           /\ f >= 1
           /\ n >= 4 => (3 * f <= n - 1 /\ n - 1 < 3 * (f + 1))
           /\ t + f = n
           /\ n = 4 => (f = 1 /\ t = 3)
           /\ n = 7 => (f = 2 /\ t = 5)

\* an engine built on seven validators
C13_Witness ==
    /\ result.op = "ConsensusEngine"
    /\ Len(validators) = 7
    /\ result.byzantine_tolerance = 2
    /\ result.consensus_threshold = 5

(***************************************************************************)
(* C14. validate_transaction(tx) is true exactly when transaction_id and   *)
(* patient_id are non-empty, the signature is the first 32 hex characters  *)
(* of sha256(sender ++ data_hash), and the payload holds device_id,        *)
(* data_type and encrypted_data for PATIENT_DATA, or requester_id,         *)
(* data_types and duration for ACCESS_GRANT; the other types need no       *)
(* payload field.                                                          *)
(***************************************************************************)
C14_ValidationRule ==
    result.op = "validate_transaction" =>
        LET tx == result.transaction
            keys == DOMAIN tx.payload
        IN result.valid <=>
              /\ tx.transaction_id # ""
              /\ tx.patient_id # ""
              /\ tx.signature =
                    <<"hex32", 32, <<"sha256", <<"concat", tx.sender, tx.data_hash>>>>>>
              /\ tx.transaction_type = "patient_data" =>
                    {"device_id", "data_type", "encrypted_data"} \subseteq keys
              /\ tx.transaction_type = "access_grant" =>
                    {"requester_id", "data_types", "duration"} \subseteq keys

\* an ACCESS_GRANT transaction refused only for its missing duration
C14_Witness ==
    /\ result.op = "validate_transaction"
    /\ ~result.valid
    /\ result.transaction.transaction_type = "access_grant"
    /\ result.transaction.transaction_id # ""
    /\ result.transaction.patient_id # ""
    /\ result.transaction.signature =
          SignatureOf(result.transaction.sender, result.transaction.data_hash)
    /\ DOMAIN result.transaction.payload = {"requester_id", "data_types"}

(***************************************************************************)
(* C15. validate_access(requester, data_type) returns true exactly when    *)
(* some rule of the contract has that requester_id, is active, has an      *)
(* expires_at strictly later than the current time, and lists the data     *)
(* type; from the instant the time equals expires_at onward a grant no     *)
(* longer counts, revoked or not.                                          *)
(***************************************************************************)
C15_AccessDecision ==
    [][\A c \in DOMAIN smart_contracts, r \in Requesters, d \in DataTypes :
          ValidateAccess(c, r, d) =>
             LET rules == smart_contracts[c].access_rules
                 lists(k) == \E i \in 1..Len(rules[k].data_types) :
                                rules[k].data_types[i] = d
             IN /\ result'.allowed <=>
                      \E k \in DOMAIN rules :
                         /\ rules[k].requester_id = r
                         /\ rules[k].active = TRUE
                         /\ now < rules[k].expires_at
                         /\ lists(k)
                /\ (\A k \in DOMAIN rules :
                       rules[k].requester_id = r => now >= rules[k].expires_at)
                      => result'.allowed = FALSE]_vars

\* a never-revoked grant asked about at the very second it expires: refused
C15_Witness ==
    /\ result.op = "validate_access"
    /\ result.allowed = FALSE
    /\ \E k \in DOMAIN smart_contracts[result.contract_id].access_rules :
          LET rule == smart_contracts[result.contract_id].access_rules[k]
          IN /\ rule.requester_id = result.requester_id
             /\ rule.active
             /\ rule.expires_at = now
             /\ InList(result.data_type, rule.data_types)

C17_RevokedRequesterDenied ==
    [][\A c \in DOMAIN smart_contracts :
          \A k \in DOMAIN smart_contracts[c].access_rules :
             RevokeAccess(c, k) =>
                LET rule == smart_contracts[c].access_rules[k]
                    after == smart_contracts'[c].access_rules
                IN \A i \in 1..Len(rule.data_types) :
                      ~validate_access(after, rule.requester_id,
                                       rule.data_types[i], now)]_vars

(***************************************************************************)
(* C17, amended. After revoke_access(k) the rule stored under k grants     *)
(* nothing: validate_access(r, d) is true for a d in D only when another   *)
(* key of the contract holds an active, unexpired rule for r that lists d, *)
(* and is false for every d in D when r has no other key.                  *)
(***************************************************************************)
C17_RevokedKeyGrantsNothing ==
    [][\A c \in DOMAIN smart_contracts :
          \A k \in DOMAIN smart_contracts[c].access_rules :
             RevokeAccess(c, k) =>
                LET rule == smart_contracts[c].access_rules[k]
                    after == smart_contracts'[c].access_rules
                    others == DOMAIN after \ {k}
                IN /\ after[k].active = FALSE
                   /\ \A i \in 1..Len(rule.data_types) :
                         validate_access(after, rule.requester_id,
                                         rule.data_types[i], now)
                         <=> \E o \in others :
                                /\ after[o].requester_id = rule.requester_id
                                /\ after[o].active
                                /\ now < after[o].expires_at
                                /\ InList(rule.data_types[i], after[o].data_types)
                   /\ (\A o \in others :
                          after[o].requester_id # rule.requester_id)
                         => \A i \in 1..Len(rule.data_types) :
                               ~validate_access(after, rule.requester_id,
                                                rule.data_types[i], now)]_vars

\* a live key was revoked while a second live key of the same requester
\* lists one of its data types
C17_Witness ==
    /\ result.op = "revoke_access"
    /\ result.revoked
    /\ result.access_key \in DOMAIN result.before
    /\ result.before[result.access_key].active
    /\ now < result.before[result.access_key].expires_at
    /\ LET after == smart_contracts[result.contract_id].access_rules
           rule == after[result.access_key]
       IN \E o \in DOMAIN after \ {result.access_key} :
             /\ after[o].requester_id = rule.requester_id
             /\ after[o].active
             /\ now < after[o].expires_at
             /\ \E i \in 1..Len(rule.data_types) :
                   InList(rule.data_types[i], after[o].data_types)

(***************************************************************************)
(* C18. Once an access key exists in a contract, no later grant_access or  *)
(* revoke_access changes its requester_id, data_types, granted_at or       *)
(* expires_at, and its active flag only goes from true to false; every     *)
(* grant_access creates a key that was not there before.                   *)
(***************************************************************************)
C18_KeysImmutable ==
    [][(GrantStep \/ RevokeStep) =>
          /\ \A c \in DOMAIN smart_contracts :
                \A k \in DOMAIN smart_contracts[c].access_rules :
                   LET before == smart_contracts[c].access_rules[k]
                       rules == smart_contracts'[c].access_rules
                   IN /\ k \in DOMAIN rules
                      /\ rules[k].requester_id = before.requester_id
                      /\ rules[k].data_types = before.data_types
                      /\ rules[k].granted_at = before.granted_at
                      /\ rules[k].expires_at = before.expires_at
                      /\ rules[k].active => before.active
          /\ \A c \in DOMAIN smart_contracts, r \in Requesters,
                g \in GrantRequests :
                GrantAccess(c, r, g.data_types, g.duration_hours) =>
                   result'.returned.access_key
                      \notin DOMAIN smart_contracts[c].access_rules]_vars

(***************************************************************************)
(* C19. revoke_access(k) returns true exactly when k is a key of the       *)
(* contract; revoking a key already revoked returns true again and leaves  *)
(* the rules as the first revocation left them; an unknown key returns     *)
(* false and changes nothing.                                              *)
(***************************************************************************)
C19_RevokeIdempotent ==
    [][\A c \in DOMAIN smart_contracts :
          \A k \in KeysTried(smart_contracts[c].access_rules) :
             RevokeAccess(c, k) =>
                LET before == smart_contracts[c].access_rules
                    after == smart_contracts'[c].access_rules
                IN /\ result'.revoked <=> k \in DOMAIN before
                   /\ DOMAIN after = DOMAIN before
                   /\ k \notin DOMAIN before => after = before
                   /\ (k \in DOMAIN before /\ ~before[k].active)
                         => (result'.revoked = TRUE /\ after = before)
                   /\ k \in DOMAIN before =>
                         /\ after[k].active = FALSE
                         /\ after[k].requester_id = before[k].requester_id
                         /\ after[k].data_types = before[k].data_types
                         /\ after[k].granted_at = before[k].granted_at
                         /\ after[k].expires_at = before[k].expires_at
                   /\ \A o \in DOMAIN before \ {k} : after[o] = before[o]
                   /\ smart_contracts'[c].contract_id
                         = smart_contracts[c].contract_id]_vars

\* the second revocation of one key: answered true, nothing changed
C19_Witness ==
    /\ result.op = "revoke_access"
    /\ result.revoked = TRUE
    /\ result.access_key \in DOMAIN result.before
    /\ result.before[result.access_key].active = FALSE
    /\ smart_contracts[result.contract_id].access_rules = result.before

(***************************************************************************)
(* C20. Every deploy_smart_contract(patient_id) creates a new contract:    *)
(* the registry grows by exactly one, the returned contract_id was not in  *)
(* use before the call, and every contract registered before, earlier      *)
(* contracts of the same patient included, stays registered with its       *)
(* access rules intact.                                                    *)
(***************************************************************************)
C20_DeployCreatesNew ==
    [][\A p \in Patients :
          DeployContract(p) =>
             /\ Cardinality(DOMAIN smart_contracts')
                   = Cardinality(DOMAIN smart_contracts) + 1
             /\ result'.contract_id \notin DOMAIN smart_contracts
             /\ \A c \in DOMAIN smart_contracts :
                   /\ c \in DOMAIN smart_contracts'
                   /\ smart_contracts'[c].access_rules
                         = smart_contracts[c].access_rules]_vars

(***************************************************************************)
(* C21, as stated. For three transactions with hashes a, b, c the Merkle   *)
(* root is hash(hash(hash(a++b) ++ hash(c++c))): the hash of the hash of    *)
(* the two concatenated pair hashes.                                       *)
(***************************************************************************)
C21_RootOfThreeHashedTwice ==
    (result.op = "calculate_merkle_root" /\ Len(result.transactions) = 3) =>
        LET a == Transaction_calculate_hash(result.transactions[1])
            b == Transaction_calculate_hash(result.transactions[2])
            c == Transaction_calculate_hash(result.transactions[3])
        IN result.merkle_root
              = HashOf(Sha256(<<"concat", Sha256(<<"concat", a, b>>),
                                          Sha256(<<"concat", c, c>>)>>))

(***************************************************************************)
(* C21, amended. For three transactions with hashes a, b, c the Merkle     *)
(* root is hash(hash(a++b) ++ hash(c++c)): the last hash is paired with    *)
(* itself and the two pair hashes are concatenated and hashed once.        *)
(***************************************************************************)
C21_RootOfThree ==
    (result.op = "calculate_merkle_root" /\ Len(result.transactions) = 3) =>
        LET a == Transaction_calculate_hash(result.transactions[1])
            b == Transaction_calculate_hash(result.transactions[2])
            c == Transaction_calculate_hash(result.transactions[3])
        IN result.merkle_root
              = Sha256(<<"concat", Sha256(<<"concat", a, b>>),
                                   Sha256(<<"concat", c, c>>)>>)

\* the root of three different transactions
C21_Witness ==
    /\ result.op = "calculate_merkle_root"
    /\ Len(result.transactions) = 3
    /\ Cardinality({result.transactions[i] : i \in 1..3}) = 3

(***************************************************************************)
(* C22. calculate_merkle_root gives one root per transaction sequence, and *)
(* exchanging two transactions of a non-empty sequence whose hashes differ *)
(* gives another root (the hash taken as collision-free).                  *)
(***************************************************************************)
C22_OrderSensitive ==
    (result.op = "calculate_merkle_root" /\ result.transactions # <<>>) =>
        LET txs == result.transactions
        IN /\ result.merkle_root = calculate_merkle_root(txs)
           /\ \A i, j \in 1..Len(txs) :
                 (i < j /\ Transaction_calculate_hash(txs[i])
                             # Transaction_calculate_hash(txs[j]))
                    => calculate_merkle_root(Swap(txs, i, j)) # result.merkle_root

\* four different transactions: every exchange of two moves the root
C22_Witness ==
    /\ result.op = "calculate_merkle_root"
    /\ Len(result.transactions) = 4
    /\ Cardinality({result.transactions[i] : i \in 1..4}) = 4
    /\ calculate_merkle_root(Swap(result.transactions, 2, 4)) # result.merkle_root

(***************************************************************************)
(* C23. get_transaction_history(p) returns exactly the committed           *)
(* transactions whose patient_id is p, one entry for each place such a     *)
(* transaction holds in a block, in ascending block_number order and in    *)
(* block position order inside a block; the pending pool adds no entry.    *)
(***************************************************************************)
C23_HistoryIsCommittedOfPatient ==
    result.op = "get_transaction_history" =>
        LET h == result.history
            p == result.patient_id
            Places == {q \in (1..Len(chain)) \X (1..MaxSubmits + 1) :
                          /\ q[2] <= Len(chain[q[1]].transactions)
                          /\ chain[q[1]].transactions[q[2]].patient_id = p}
            Before(q) == {o \in Places :
                             o[1] < q[1] \/ (o[1] = q[1] /\ o[2] < q[2])}
        IN /\ Len(h) = Cardinality(Places)
           /\ \A q \in Places :
                 LET e == h[Cardinality(Before(q)) + 1]
                     tx == chain[q[1]].transactions[q[2]]
                 IN /\ e.transaction_id = tx.transaction_id
                    /\ e.block_number = q[1] - 1
                    /\ e.block_number = chain[q[1]].block_number
                    /\ e.timestamp = tx.timestamp
                    /\ e.transaction_type = tx.transaction_type
                    /\ e.data_hash = tx.data_hash
           /\ \A i, j \in 1..Len(h) :
                 i < j => h[i].block_number <= h[j].block_number
           /\ \A i \in 1..Len(pending_transactions) :
                 CountId(pending_transactions[i].transaction_id, Committed) = 0
                    => \A k \in 1..Len(h) :
                          h[k].transaction_id
                             # pending_transactions[i].transaction_id

\* a history of two entries from two blocks, asked for while another
\* transaction of the same patient is still pending
C23_Witness ==
    /\ result.op = "get_transaction_history"
    /\ Len(result.history) = 2
    /\ result.history[1].block_number < result.history[2].block_number
    /\ \E i \in 1..Len(pending_transactions) :
          /\ pending_transactions[i].patient_id = result.patient_id
          /\ CountId(pending_transactions[i].transaction_id, Committed) = 0

(***************************************************************************)
(* C24. A transaction that fails validate_transaction stays in the pending *)
(* pool across every mine_block call: each of its submissions is still     *)
(* pending, none is committed and none is dropped.                         *)
(***************************************************************************)
C24_InvalidStaysPending ==
    \A tx \in TxInputs :
        ~validate_transaction(tx) =>
            /\ Count(tx, pending_transactions) = submitted[tx]
            /\ Count(tx, Committed) = 0

(***************************************************************************)
(* C25. No fault inside mine_block, such as the hash computation of a      *)
(* pending transaction raising while the Merkle root is built, escapes as  *)
(* an exception: the call returns a result with status failed and an error *)
(* message, and the chain and the pending pool are unchanged.              *)
(***************************************************************************)
C25_FaultBecomesResult ==
    [][\A v \in MinerAddresses :
          (/\ mine_block(v)
           /\ pending_transactions # <<>>
           /\ MerkleRaises(
                  ValidatedTxs(pending_transactions,
                               reach_consensus(validators,
                                               pending_transactions, now))))
            => /\ "raised" \notin DOMAIN result'
               /\ "status" \in DOMAIN result'
               /\ result'.status = "failed"
               /\ "error" \in DOMAIN result'
               /\ chain' = chain
               /\ pending_transactions' = pending_transactions]_vars

(***************************************************************************)
(* C26. Every transaction contained in a committed block has a non-empty   *)
(* transaction_id, a non-empty patient_id and a non-empty sender.          *)
(***************************************************************************)
C26_CommittedFieldsNonEmpty ==
    \A i \in 1..Len(Committed) :
        /\ Committed[i].transaction_id # ""
        /\ Committed[i].patient_id # ""
        /\ Committed[i].sender # ""

(***************************************************************************)
(* C27. Every transaction contained in a non-genesis block passed          *)
(* validate_transaction in the mine_block call that committed it, also     *)
(* when submissions reuse a transaction_id another pending one carries.    *)
(***************************************************************************)
C27_CommittedPassedValidation ==
    \A i \in 2..Len(chain) :
        \A k \in 1..Len(chain[i].transactions) :
            validate_transaction(chain[i].transactions[k])

(***************************************************************************)
(* C28. Every non-genesis block contains at least one transaction: a       *)
(* mine_block call on a pool of transactions that all fail validation      *)
(* appends no block.                                                       *)
(***************************************************************************)
C28_NoEmptyBlock ==
    \A i \in 2..Len(chain) : Len(chain[i].transactions) >= 1

(***************************************************************************)
(* C29. The validator field of every non-genesis block is a member of the  *)
(* validator list given at construction: mine_block called with another    *)
(* identity appends no block.                                              *)
(***************************************************************************)
C29_ValidatorIsMember ==
    validators # <<>> =>
        \A i \in 2..Len(chain) :
            \E k \in 1..Len(validators) : validators[k] = chain[i].validator

(***************************************************************************)
(* C30. With calls run one after another, the number of submit_transaction *)
(* calls that returned submitted equals the length of the pending pool     *)
(* plus the number of transactions over all committed blocks, in total and *)
(* for every transaction id, shared ids included.                          *)
(***************************************************************************)
C30_SubmittedConserved ==
    /\ Submissions = Len(pending_transactions) + Len(Committed)
    /\ \A id \in TxIds :
          CountId(id, pending_transactions) + CountId(id, Committed)
             = SumOver(submitted, {tx \in TxInputs : tx.transaction_id = id})

\* two different transactions under one id were submitted, a block was
\* mined, and a submission is still pending
C30_Witness ==
    /\ \E a, b \in TxInputs :
          /\ a # b
          /\ a.transaction_id = b.transaction_id
          /\ submitted[a] >= 1
          /\ submitted[b] >= 1
    /\ Len(chain) >= 2
    /\ Committed # <<>>
    /\ pending_transactions # <<>>
    /\ Submissions = MaxSubmits

(***************************************************************************)
(* C31. A mine_block call made while a transaction that passes             *)
(* validate_transaction is pending commits that transaction in the block   *)
(* it appends, whatever else is pending; so repeated mining puts every     *)
(* valid submitted transaction in a block.                                 *)
(***************************************************************************)
C31_ValidPendingIsCommitted ==
    [][\A v \in MinerAddresses :
          mine_block(v) =>
             \A i \in 1..Len(pending_transactions) :
                validate_transaction(pending_transactions[i]) =>
                   /\ Len(chain') = Len(chain) + 1
                   /\ InList(pending_transactions[i],
                             chain'[Len(chain')].transactions)]_vars

(***************************************************************************)
(* C33. calculate_merkle_root equals the reference fold: the hash of the   *)
(* empty byte string for no transaction, the transaction's own hash for    *)
(* one, and otherwise the hash left when the list of hashes is replaced,   *)
(* again and again, by hash(x[i] ++ x[i+1]) over adjacent pairs, a         *)
(* trailing odd hash paired with itself. The fold is written out here for  *)
(* each length up to five.                                                 *)
(***************************************************************************)
C33_ReferenceFold ==
    result.op = "calculate_merkle_root" =>
        LET txs == result.transactions
            n == Len(txs)
            x(i) == <<"sha256", <<"tx", txs[i]>>>>
            H(l, r) == <<"sha256", <<"concat", l, r>>>>
        IN /\ n = 0 => result.merkle_root = <<"sha256", <<"bytes">>>>
           /\ n = 1 => result.merkle_root = x(1)
           /\ n = 2 => result.merkle_root = H(x(1), x(2))
           /\ n = 3 => result.merkle_root = H(H(x(1), x(2)), H(x(3), x(3)))
           /\ n = 4 => result.merkle_root = H(H(x(1), x(2)), H(x(3), x(4)))
           /\ n = 5 => result.merkle_root =
                          H(H(H(x(1), x(2)), H(x(3), x(4))),
                            H(H(x(5), x(5)), H(x(5), x(5))))

\* a root over four transactions, the first two of them equal
C33_Witness ==
    /\ result.op = "calculate_merkle_root"
    /\ Len(result.transactions) = 4
    /\ result.transactions[1] = result.transactions[2]
    /\ result.transactions[3] # result.transactions[4]

C35_BlockHashAndSignature ==
    MinedOk =>
        LET b == chain[Len(chain)]
            hashed(blk) ==
                <<"sha256",
                  <<"block",
                    [block_number |-> blk.block_number,
                     previous_hash |-> blk.previous_hash,
                     timestamp |-> blk.timestamp,
                     merkle_root |-> blk.merkle_root,
                     validator |-> blk.validator,
                     nonce |-> blk.nonce,
                     transaction_count |-> Len(blk.transactions)]>>>>
        IN /\ result.block_number = b.block_number
           /\ result.block_hash = Block_calculate_hash(b)
           /\ result.block_hash = hashed(b)
           /\ result.block_hash = get_chain_status.latest_block_hash
           /\ b.signature = <<"sha256", <<"concat", b.validator, result.block_hash>>>>
           /\ Block_calculate_hash([b EXCEPT !.signature = ""])
                 = Block_calculate_hash(b)

\* a block of two transactions mined by an identity, on top of another block
C35_Witness ==
    /\ MinedOk
    /\ Len(chain) = 3
    /\ Len(chain[3].transactions) = 2
    /\ chain[3].validator = "admin_miner"
    /\ chain[3].signature # ""

(***************************************************************************)
(* C36. Every transaction id found in the pending pool or in a committed   *)
(* block is a key of the transaction lookup, and no operation removes a    *)
(* key: the id of every transaction ever submitted stays a key, and the    *)
(* lookup holds a transaction of that id.                                  *)
(***************************************************************************)
C36_LookupCoversAll ==
    /\ \A i \in 1..Len(pending_transactions) :
          pending_transactions[i].transaction_id \in DOMAIN transaction_pool
    /\ \A i \in 1..Len(Committed) :
          Committed[i].transaction_id \in DOMAIN transaction_pool
    /\ \A tx \in TxInputs :
          submitted[tx] > 0 => tx.transaction_id \in DOMAIN transaction_pool
    /\ \A id \in DOMAIN transaction_pool :
          transaction_pool[id].transaction_id = id

\* two ids in the lookup, one committed and one still pending after mining
C36_Witness ==
    /\ Cardinality(DOMAIN transaction_pool) >= 2
    /\ Committed # <<>>
    /\ pending_transactions # <<>>
    /\ \E i \in 1..Len(pending_transactions) :
          CountId(pending_transactions[i].transaction_id, Committed) = 0
    /\ result.op = "mine_block"

(***************************************************************************)
(* C37. An exception raised while validating a transaction (a payload that *)
(* does not support key lookup reaching a field check) is caught inside    *)
(* validate_transaction, which returns false; reach_consensus lists that   *)
(* transaction as rejected and still gives every other transaction of the  *)
(* batch its own verdict, and the round is VALIDATED.                      *)
(***************************************************************************)
C37_FaultIsRejection ==
    LET raises(tx) ==
            /\ tx.payload = [py_type |-> "NoneType"]
            /\ tx.transaction_id # "" /\ tx.patient_id # ""
            /\ tx.signature =
                  <<"hex32", 32, <<"sha256", <<"concat", tx.sender, tx.data_hash>>>>>>
            /\ tx.transaction_type \in {"patient_data", "access_grant"}
    IN /\ (result.op = "validate_transaction" /\ raises(result.transaction))
            => result.valid = FALSE
       /\ (result.op = "reach_consensus"
            /\ \E i \in 1..Len(result.transactions) : raises(result.transactions[i]))
            => LET txs == result.transactions
                   cr == result.consensus_result
               IN /\ cr.status = "validated"
                  /\ Len(cr.validated_transactions) + Len(cr.rejected_transactions)
                        = Len(txs)
                  /\ \A i \in 1..Len(txs) :
                        IF raises(txs[i])
                        THEN /\ InList(txs[i].transaction_id, cr.rejected_transactions)
                             /\ ~InList(txs[i].transaction_id, cr.validated_transactions)
                        ELSE validate_transaction_try(txs[i]) =>
                                InList(txs[i].transaction_id, cr.validated_transactions)

\* a batch of a valid transaction and one with a None payload: the first is
\* validated, the second rejected
C37_Witness ==
    /\ result.op = "reach_consensus"
    /\ Len(result.transactions) = 2
    /\ result.transactions[1].transaction_id = "tx_a"
    /\ validate_transaction(result.transactions[1])
    /\ result.transactions[2].payload = NoneObject
    /\ result.consensus_result.validated_transactions = <<"tx_a">>
    /\ result.consensus_result.rejected_transactions = <<"tx_n">>

(***************************************************************************)
(* C38. For every validator count n >= 1 the byzantine_tolerance f of the  *)
(* engine is tolerable by the set: n >= 3f + 1.                            *)
(***************************************************************************)
C38_ToleranceIsTolerable ==
    (result.op = "ConsensusEngine" /\ Len(validators) >= 1) =>
        Len(validators) >= 3 * result.byzantine_tolerance + 1

(***************************************************************************)
(* C39. A BlockchainCore constructed with an empty validator list never    *)
(* appends a block: the chain stays the genesis block alone, and every     *)
(* mine_block on a non-empty pool returns consensus_failed.                *)
(***************************************************************************)
C39_NoValidatorsNoBlock ==
    validators = <<>> =>
        /\ Len(chain) = 1
        /\ (result.op = "mine_block" /\ "status" \in DOMAIN result)
              => result.status \in {"no_transactions", "consensus_failed"}

====
